---- MODULE Spec2Model ----
(***************************************************************************)
(* The memory-introspection commands of the JOS kernel monitor             *)
(* (kern/monitor.c): backtrace, showmapping, setperm and dumpmem, run from  *)
(* the monitor's read-eval loop against the kernel page directory.          *)
(*                                                                         *)
(* A uint32_t is kept at its full width as a record [pg, off] standing for  *)
(* pg * 4096 + off, with pg in 0..2^20-1 and off in 0..4095: the value      *)
(* itself does not fit the model checker's integers.                        *)
(***************************************************************************)
EXTENDS Integers, Sequences, FiniteSets, TLC

\* ------------------------------------------------------------------ bounds
MaxUnits == 3
MaxFrames == 3
MaxShowRecs == 4

\* ------------------------------------------------------- 32-bit arithmetic
PGSIZE == 4096
NPGNUM == 1048576
NPDENTRIES == 1024
NPTENTRIES == 1024
PTE_P == 1
PTE_W == 2
PTE_U == 4
UNIT_LEN == 4

RECURSIVE BitAnd(_, _)
BitAnd(x, y) ==
    IF x = 0 \/ y = 0 THEN 0
    ELSE (x % 2) * (y % 2) + 2 * BitAnd(x \div 2, y \div 2)

RECURSIVE BitOr(_, _)
BitOr(x, y) ==
    IF x = 0 THEN y
    ELSE IF y = 0 THEN x
    ELSE (IF x % 2 = 1 \/ y % 2 = 1 THEN 1 ELSE 0) + 2 * BitOr(x \div 2, y \div 2)

W(p, o) == [pg |-> p, off |-> o]
ZeroW == W(0, 0)
\* a non-negative integer below 2^31 as a uint32_t
WordOf(i) == W(i \div PGSIZE, i % PGSIZE)

Add32(a, b) ==
    LET s == a.off + b.off
    IN  W((a.pg + b.pg + (s \div PGSIZE)) % NPGNUM, s % PGSIZE)
Lt32(a, b) == a.pg < b.pg \/ (a.pg = b.pg /\ a.off < b.off)
Le32(a, b) == a = b \/ Lt32(a, b)
And32(a, b) == W(BitAnd(a.pg, b.pg), BitAnd(a.off, b.off))
Or32(a, b) == W(BitOr(a.pg, b.pg), BitOr(a.off, b.off))
\* x << 2 on a uint32_t
Shl2(a) == Add32(Add32(a, a), Add32(a, a))

MIN_ADDR(x, y) == IF Le32(x, y) THEN x ELSE y
MAX_MEM == W(NPGNUM - 1, PGSIZE - 1)
KERNBASE == W(983040, 0)
\* MAX_MEM - KERNBASE + 1
KernSpan == Add32(W(MAX_MEM.pg - KERNBASE.pg, MAX_MEM.off - KERNBASE.off), WordOf(1))

PDX(la) == BitAnd(la.pg \div NPTENTRIES, 1023)
PTX(la) == BitAnd(la.pg, 1023)
PGOFF(la) == W(0, BitAnd(la.off, 4095))
PTE_ADDR(pte) == W(pte.pg, 0)
PGNUM(la) == la.pg
\* d << 22 | t << 12 | o, on 32 bits
PGADDR(d, t, o) ==
    Or32(Or32(W((d * NPTENTRIES) % NPGNUM, 0), W(t % NPGNUM, 0)), W(0, o))
RoundDownPage(a) == W(a.pg, 0)
RoundDownUnit(a) == W(a.pg, a.off - (a.off % UNIT_LEN))


\* ------------------------------------------------------------------- state
VARIABLES
    kern_pgdir,   \* page directory: directory index -> entry (absent index: 0)
    pgtab,        \* page tables: <<directory index, table index>> -> entry
    npages,       \* number of physical pages installed
    pc,           \* where the monitor is: "prompt" or inside a command's loop
    cmd,          \* the command line being run, arguments already parsed
    out,          \* the records the running command has printed
    start_addr,   \* start_addr / start_pa / start_va of the running command
    end_addr,     \* end_addr / end_pa / end_va
    next_addr,    \* next_addr of the dump loops
    pte,          \* the pte_t * of the last pgdir_walk
    creates,      \* the create arguments pgdir_walk was called with
    ebp,          \* mon_backtrace's frame pointer
    stack,        \* stack memory read by mon_backtrace: address -> word
    resolved      \* the addresses debuginfo_eip was called with

vars == <<kern_pgdir, pgtab, npages, pc, cmd, out, start_addr, end_addr,
          next_addr, pte, creates, ebp, stack, resolved>>

\* ---------------------------------------------------------- page-table walk
NullPte == [ok |-> FALSE, d |-> 0, t |-> 0]
PteRef(d, t) == [ok |-> TRUE, d |-> d, t |-> t]

PdeIn(pgdir, d) == IF d \in DOMAIN pgdir THEN pgdir[d] ELSE ZeroW
PteIn(tab, ref) ==
    IF <<ref.d, ref.t>> \in DOMAIN tab THEN tab[<<ref.d, ref.t>>] ELSE ZeroW
HasBit(w, bit) == BitAnd(w.off, bit) # 0

\* physical page handed out for the page table of directory index d
PtFrame(d) == 256 + d
NewPde(d) == W(PtFrame(d), PTE_P + PTE_W + PTE_U)

\* pgdir_walk(pgdir, va, create): the returned pte_t *, NULL when the directory
\* entry is missing and create is 0
pgdir_walk(pgdir, va, create) ==
    IF HasBit(PdeIn(pgdir, PDX(va)), PTE_P) \/ create # 0
    THEN PteRef(PDX(va), PTX(va))
    ELSE NullPte
\* the page directory after pgdir_walk(pgdir, va, create)
PgdirAfterWalk(pgdir, va, create) ==
    IF HasBit(PdeIn(pgdir, PDX(va)), PTE_P) \/ create = 0
    THEN pgdir
    ELSE [d \in DOMAIN pgdir \cup {PDX(va)} |->
            IF d = PDX(va) THEN NewPde(d) ELSE pgdir[d]]

\* *pte = v
StorePte(tab, ref, v) ==
    [k \in DOMAIN tab \cup {<<ref.d, ref.t>>} |->
        IF k = <<ref.d, ref.t>> THEN v ELSE tab[k]]

\* ------------------------------------------------------------ initial state
TrackedDirs == {0, 1, 1023}
\* the pages whose entries vary, with the physical page each may map
TrackedPages == {<<0, 1>>, <<1, 1023>>, <<1023, 1023>>}
Frame(k) == IF k = <<0, 1>> THEN 5 ELSE IF k = <<1, 1023>> THEN 6 ELSE 7
PteChoices(k) ==
    IF k[1] = 1023 THEN {ZeroW, W(Frame(k), PTE_P + PTE_W)}
    ELSE {ZeroW, W(Frame(k), PTE_P + PTE_W), W(Frame(k), PTE_W)}
PgdirChoices == [TrackedDirs -> {ZeroW}] \cup
    {[d \in TrackedDirs |-> IF d \in S THEN NewPde(d) ELSE ZeroW] :
        S \in SUBSET TrackedDirs}
\* a page table exists only under a present directory entry
PgtabChoices(pgdir) ==
    {t \in [TrackedPages -> UNION {PteChoices(k) : k \in TrackedPages}] :
        \A k \in TrackedPages :
            /\ t[k] \in PteChoices(k)
            /\ ~HasBit(pgdir[k[1]], PTE_P) => t[k] = ZeroW}
NpagesChoices == {16, 65537}

NoCmd == [name |-> "none", a1 |-> ZeroW, a2 |-> ZeroW, units |-> 0, frames |-> <<>>]

Init ==
    /\ kern_pgdir \in PgdirChoices
    /\ pgtab \in PgtabChoices(kern_pgdir)
    /\ npages \in NpagesChoices
    /\ pc = "prompt"
    /\ cmd = NoCmd
    /\ out = <<>>
    /\ start_addr = ZeroW
    /\ end_addr = ZeroW
    /\ next_addr = ZeroW
    /\ pte = NullPte
    /\ creates = {}
    /\ ebp = 0
    /\ stack = <<>>
    /\ resolved = <<>>

\* what runcmd leaves behind when it dispatches a new command line
Fresh(c) ==
    /\ cmd' = c
    /\ out' = <<>>
    /\ creates' = {}
    /\ pte' = NullPte
    /\ next_addr' = ZeroW

\* --------------------------------------------------------------- backtrace
FrameAddrs == {32 * f : f \in 1..MaxFrames}
\* the return address saved in the frame at address a (two frames may share one)
EipOf(a) == 4096 + 4 * (a \div 64)
ArgsOf(a) == [i \in 1..5 |-> a + i]
\* call chains: frame bases from the innermost frame outwards, callers higher
Chains ==
    {c \in UNION {[1..k -> FrameAddrs] : k \in 0..MaxFrames} :
        \A i \in 1..(Len(c) - 1) : c[i] < c[i + 1]}
\* the stack memory holding chain c: saved ebp, return address, five words
StackOf(c) ==
    [a \in UNION {{c[i] + 4 * j : j \in 0..6} : i \in 1..Len(c)} |->
        LET i == CHOOSE i \in 1..Len(c) : c[i] <= a /\ a <= c[i] + 24
            j == (a - c[i]) \div 4
        IN  IF j = 0 THEN (IF i < Len(c) THEN c[i + 1] ELSE 0)
            ELSE IF j = 1 THEN EipOf(c[i])
            ELSE ArgsOf(c[i])[j - 1]]

BtCmd(c) == [name |-> "backtrace", a1 |-> ZeroW, a2 |-> ZeroW, units |-> 0, frames |-> c]

\* uint32_t *ebp = (uint32_t *)read_ebp();
read_ebp(c) == IF Len(c) = 0 THEN 0 ELSE c[1]
\* while (ebp)
BtCond(p) == p # 0
\* variant: the return address read one word too high
BtRecordWrongSlot(mem, p) ==
    [ebp |-> p, eip |-> mem[p + 8],
     args |-> [i \in 1..5 |-> mem[p + 4 + 4 * i]],
     info |-> <<"debuginfo", mem[p + 8]>>]
\* the line printed for the frame at p, and the resolver's answer for its eip
BtRecord(mem, p) ==
    [ebp |-> p, eip |-> mem[p + 4],
     args |-> [i \in 1..5 |-> mem[p + 4 + 4 * i]],
     info |-> <<"debuginfo", mem[p + 4]>>]
\* ebp = (uint32_t *)(*ebp);
BtNext(mem, p) == mem[p]

mon_backtrace ==
    /\ pc = "prompt"
    /\ \E c \in Chains :
        /\ Fresh(BtCmd(c))
        /\ ebp' = read_ebp(c)
        /\ stack' = StackOf(c)
    /\ resolved' = <<>>
    /\ start_addr' = ZeroW
    /\ end_addr' = ZeroW
    /\ pc' = "bt"
    /\ UNCHANGED <<kern_pgdir, pgtab, npages>>

BacktraceStep ==
    /\ pc = "bt"
    /\ IF BtCond(ebp)
       THEN /\ out' = Append(out, BtRecord(stack, ebp))
            /\ resolved' = Append(resolved, stack[ebp + 4])
            /\ ebp' = BtNext(stack, ebp)
            /\ pc' = "bt"
       ELSE /\ pc' = "prompt"
            /\ UNCHANGED <<out, resolved, ebp>>
    /\ UNCHANGED <<kern_pgdir, pgtab, npages, cmd, start_addr, end_addr,
                   next_addr, pte, creates, stack>>

\* ------------------------------------------------------------- showmapping
\* start and end as typed: up to three pages apart, reversed, and up to the
\* topmost page
ShowArgs ==
    {<<W(0, 4095), W(0, 0)>>, <<W(0, 4095), W(2, 2748)>>, <<W(1, 0), W(1, 4095)>>,
     <<W(2, 2748), W(1, 0)>>, <<W(2047, 7), W(2048, 0)>>,
     <<W(NPGNUM - 3, 8), W(NPGNUM - 2, 4095)>>,
     <<W(NPGNUM - 2, 0), W(NPGNUM - 1, 291)>>,
     <<W(NPGNUM - 1, 291), W(NPGNUM - 1, 4095)>>,
     <<W(NPGNUM - 1, 0), W(0, 0)>>}
ShowCmd(a, b) ==
    [name |-> "showmapping", a1 |-> a, a2 |-> b, units |-> 0, frames |-> <<>>]

\* variant: the walk of mon_showmapping made with create = 1
ShowWalkCreateAlloc(va) == 1
\* the create argument of the pgdir_walk call in mon_showmapping
ShowWalkCreate(va) == 0
\* start_addr <= end_addr
ShowCond(s, e) == Le32(s, e)
\* (uint32_t)pte == (uint32_t)kern_pgdir: no page table of the model is the
\* page directory itself
PteIsPgdir(ref) == FALSE
\* PADDR(kern_pgdir)
KernPgdirPa == W(255, 0)
\* print_pte, after "VA: 0x%08x"
print_pte(va, ref, tab) ==
    IF ref.ok /\ HasBit(PteIn(tab, ref), PTE_P)
    THEN [va |-> va, mapped |-> TRUE, pa |-> <<PTE_ADDR(PteIn(tab, ref))>>,
          w |-> HasBit(PteIn(tab, ref), PTE_W), u |-> HasBit(PteIn(tab, ref), PTE_U)]
    ELSE IF ref.ok /\ PteIsPgdir(ref)
    THEN [va |-> va, mapped |-> TRUE, pa |-> <<KernPgdirPa>>,
          w |-> FALSE, u |-> FALSE]
    ELSE [va |-> va, mapped |-> FALSE, pa |-> <<>>, w |-> FALSE, u |-> FALSE]

mon_showmapping ==
    /\ pc = "prompt"
    /\ \E arg \in ShowArgs :
        /\ Fresh(ShowCmd(arg[1], arg[2]))
        /\ start_addr' = RoundDownPage(arg[1])
        /\ end_addr' = RoundDownPage(arg[2])
    /\ ebp' = 0
    /\ stack' = <<>>
    /\ resolved' = <<>>
    /\ pc' = "show"
    /\ UNCHANGED <<kern_pgdir, pgtab, npages>>

ShowStep ==
    /\ pc = "show"
    /\ IF ShowCond(start_addr, end_addr)
       THEN /\ Len(out) < MaxShowRecs
            /\ pte' = pgdir_walk(kern_pgdir, start_addr, ShowWalkCreate(start_addr))
            /\ kern_pgdir' = PgdirAfterWalk(kern_pgdir, start_addr, ShowWalkCreate(start_addr))
            /\ creates' = creates \cup {ShowWalkCreate(start_addr)}
            /\ out' = Append(out, print_pte(start_addr, pte', pgtab))
            /\ start_addr' = Add32(start_addr, WordOf(PGSIZE))
            /\ pc' = "show"
       ELSE /\ pc' = "prompt"
            /\ UNCHANGED <<kern_pgdir, pte, creates, out, start_addr>>
    /\ UNCHANGED <<pgtab, npages, cmd, end_addr, next_addr, ebp, stack, resolved>>

\* ----------------------------------------------------------------- setperm
SetpermVAs == {W(1, 564), W(2, 0), W(2047, 4), W(2048, 0)}
PermArgs == {W(1, 6), W(0, 3)}
SetpermCmd(va, bits) ==
    [name |-> "setperm", a1 |-> va, a2 |-> bits, units |-> 0, frames |-> <<>>]

\* perm &= 0xfff
PermMask(bits) == And32(bits, W(0, 4095))
\* variant: the test of the pointer alone
SetpermGuardPointerOnly(ref, tab) == ref.ok
\* pte && (*pte & PTE_P)
SetpermGuard(ref, tab) == ref.ok /\ HasBit(PteIn(tab, ref), PTE_P)
\* variant: the store without the present bit forced on
SetpermValueNoPresent(old, perm) == Or32(And32(old, W(NPGNUM - 1, 0)), perm)
\* (*pte & ~0xfff) | perm | PTE_P
SetpermValue(old, perm) ==
    Or32(Or32(And32(old, W(NPGNUM - 1, 0)), perm), W(0, PTE_P))
SetpermWalkCreate(va) == 0

mon_setperm ==
    /\ pc = "prompt"
    /\ \E va \in SetpermVAs, bits \in PermArgs :
        LET perm == PermMask(bits)
            ref == pgdir_walk(kern_pgdir, va, SetpermWalkCreate(va))
        IN  /\ cmd' = SetpermCmd(va, bits)
            /\ pte' = ref
            /\ creates' = {SetpermWalkCreate(va)}
            /\ kern_pgdir' = PgdirAfterWalk(kern_pgdir, va, SetpermWalkCreate(va))
            /\ IF SetpermGuard(ref, pgtab)
               THEN /\ pgtab' = StorePte(pgtab, ref, SetpermValue(PteIn(pgtab, ref), perm))
                    /\ out' = <<[msg |-> "Permission has been set", perm |-> perm, va |-> va]>>
               ELSE /\ pgtab' = pgtab
                    /\ out' = <<[msg |-> "There's no mapping", perm |-> perm, va |-> va]>>
    /\ next_addr' = ZeroW
    /\ start_addr' = ZeroW
    /\ end_addr' = ZeroW
    /\ ebp' = 0
    /\ stack' = <<>>
    /\ resolved' = <<>>
    /\ pc' = "prompt"
    /\ UNCHANGED npages

\* ----------------------------------------------------------------- dumpmem
\* starts just below a page, directory-region, address-space or memory boundary
VirtStarts ==
    {W(0, 4092), W(1, 4089), W(1023, 4088), W(2047, 4088),
     W(NPGNUM - 2, 4090), W(NPGNUM - 1, 4080)}
PhysStarts ==
    {W(3, 17), W(15, 4088), W(16, 0), W(65535, 4088), W(65536, 4093)}
\* unit counts as typed: small ones, and one whose byte count wraps
DumpUnits == 0..MaxUnits \cup {1073741823}
\* the walk over 0x0FFC..0x2008, typed when 0x1000 is mapped to 0x5000 and
\* nothing else is
LongArg == <<W(0, 4092), 1027>>
LongSpace(pgdir, tab) ==
    /\ HasBit(PdeIn(pgdir, 0), PTE_P)
    /\ HasBit(PteIn(tab, PteRef(0, 1)), PTE_P)
    /\ \A d \in DOMAIN pgdir : d # 0 => ~HasBit(pgdir[d], PTE_P)
VirtArgs(pgdir, tab) ==
    (VirtStarts \X DumpUnits) \cup
    (IF LongSpace(pgdir, tab) THEN {LongArg} ELSE {})
PhysArgs == PhysStarts \X DumpUnits
DumpCmd(mode, a, u) ==
    [name |-> mode, a1 |-> a, a2 |-> ZeroW, units |-> u, frames |-> <<>>]

\* start_addr = ROUNDDOWN(start_addr, UNIT_LEN)
DumpStart(a) == RoundDownUnit(a)
\* n *= UNIT_LEN
DumpBytes(u) == Shl2(WordOf(u))

\* npages * PGSIZE
MemTop(np) == W(np % NPGNUM, 0)
\* variant: the test of the start alone
PhysRangeOutStartOnly(s, n, np) == Lt32(MemTop(np), s)
\* start_pa + n > npages * PGSIZE
PhysRangeOut(s, n, np) == Lt32(MemTop(np), Add32(s, n))
\* variant: the loop bound without the second ceiling
PhysNextNoCeiling(e) == e
\* MIN_ADDR(end_pa, MAX_MEM - KERNBASE + 1)
PhysNext(e) == MIN_ADDR(e, KernSpan)
\* KADDR(pa) panics when PGNUM(pa) >= npages
KaddrOk(pa, np) == PGNUM(pa) < np
KADDR(pa) == Add32(pa, KERNBASE)
PhysRecord(pa) == [pa |-> pa, content |-> <<"word", KADDR(pa)>>]

mon_dumpmemory_p ==
    /\ pc = "prompt"
    /\ \E arg \in PhysArgs :
        LET s == DumpStart(arg[1])
            n == DumpBytes(arg[2])
        IN  /\ cmd' = DumpCmd("dumpmem p", arg[1], arg[2])
            /\ start_addr' = s
            /\ IF PhysRangeOut(s, n, npages)
               THEN /\ out' = <<[msg |-> "Range out of memory!"]>>
                    /\ end_addr' = ZeroW
                    /\ next_addr' = ZeroW
                    /\ pc' = "prompt"
               ELSE /\ out' = <<>>
                    /\ end_addr' = Add32(s, n)
                    /\ next_addr' = PhysNext(Add32(s, n))
                    /\ pc' = "pfor"
    /\ pte' = NullPte
    /\ creates' = {}
    /\ ebp' = 0
    /\ stack' = <<>>
    /\ resolved' = <<>>
    /\ UNCHANGED <<kern_pgdir, pgtab, npages>>

PhysStep ==
    /\ pc = "pfor"
    /\ IF Lt32(start_addr, next_addr)
       THEN IF KaddrOk(start_addr, npages)
            THEN /\ out' = Append(out, PhysRecord(start_addr))
                 /\ start_addr' = Add32(start_addr, WordOf(4))
                 /\ pc' = "pfor"
            ELSE /\ pc' = "panic"
                 /\ UNCHANGED <<out, start_addr>>
       ELSE /\ pc' = "prompt"
            /\ UNCHANGED <<out, start_addr>>
    /\ UNCHANGED <<kern_pgdir, pgtab, npages, cmd, end_addr, next_addr, pte,
                   creates, ebp, stack, resolved>>

\* the create argument of the pgdir_walk call in dump_virtmem
VirtWalkCreate(va) == 0
\* (uint32_t)(PGADDR(PDX(start_va) + 1, 0, 0))
DirBoundary(va) == PGADDR(PDX(va) + 1, 0, 0)
\* (uint32_t)(PGADDR(PDX(start_va), PTX(start_va) + 1, 0)), page not present
PageBoundary(va) == PGADDR(PDX(va), PTX(va) + 1, 0)
\* variant: a mapped run carried to the end of the directory region
MappedBoundaryWholeDir(va) == PGADDR(PDX(va) + 1, 0, 0)
\* (uint32_t)(PGADDR(PDX(start_va), PTX(start_va) + 1, 0)), page present
MappedBoundary(va) == PGADDR(PDX(va), PTX(va) + 1, 0)
\* which of the three branches of the while body is taken
VirtCase(ref, tab) ==
    IF ~ref.ok THEN "no pde"
    ELSE IF ~HasBit(PteIn(tab, ref), PTE_P) THEN "no pte"
    ELSE "mapped"
VirtNext(va, e, ref, tab) ==
    IF VirtCase(ref, tab) = "no pde" THEN MIN_ADDR(e, DirBoundary(va))
    ELSE IF VirtCase(ref, tab) = "no pte" THEN MIN_ADDR(e, PageBoundary(va))
    ELSE MIN_ADDR(e, MappedBoundary(va))
\* the line printed for start_va in the taken branch
VirtRecord(va, ref, tab) ==
    IF VirtCase(ref, tab) = "mapped"
    THEN [va |-> va, pa |-> <<Or32(PTE_ADDR(PteIn(tab, ref)), PGOFF(va))>>,
          content |-> <<"word", va>>]
    ELSE [va |-> va, pa |-> <<>>, content |-> <<>>]
mon_dumpmemory_v ==
    /\ pc = "prompt"
    /\ \E arg \in VirtArgs(kern_pgdir, pgtab) :
        /\ Fresh(DumpCmd("dumpmem v", arg[1], arg[2]))
        /\ start_addr' = DumpStart(arg[1])
        /\ end_addr' = Add32(DumpStart(arg[1]), DumpBytes(arg[2]))
    /\ ebp' = 0
    /\ stack' = <<>>
    /\ resolved' = <<>>
    /\ pc' = "vwhile"
    /\ UNCHANGED <<kern_pgdir, pgtab, npages>>

\* one test of the while condition and, when it holds, the walk and the choice
\* of the branch
VirtWhile ==
    /\ pc = "vwhile"
    /\ IF Lt32(start_addr, end_addr)
       THEN /\ pte' = pgdir_walk(kern_pgdir, start_addr, VirtWalkCreate(start_addr))
            /\ kern_pgdir' = PgdirAfterWalk(kern_pgdir, start_addr, VirtWalkCreate(start_addr))
            /\ creates' = creates \cup {VirtWalkCreate(start_addr)}
            /\ next_addr' = VirtNext(start_addr, end_addr, pte', pgtab)
            /\ pc' = "vfor"
       ELSE /\ pc' = "prompt"
            /\ UNCHANGED <<kern_pgdir, pte, creates, next_addr>>
    /\ UNCHANGED <<pgtab, npages, cmd, out, start_addr, end_addr, ebp, stack, resolved>>

\* one test of the condition of the branch's for loop and, when it holds, its
\* body: for (; start_va < next_addr; start_va += UNIT_LEN) cprintf(...)
VirtFor ==
    /\ pc = "vfor"
    /\ IF Lt32(start_addr, next_addr)
       THEN /\ out' = Append(out, VirtRecord(start_addr, pte, pgtab))
            /\ start_addr' = Add32(start_addr, WordOf(UNIT_LEN))
            /\ pc' = "vfor"
       ELSE /\ pc' = "vwhile"
            /\ UNCHANGED <<out, start_addr>>
    /\ UNCHANGED <<kern_pgdir, pgtab, npages, cmd, end_addr, next_addr, pte,
                   creates, ebp, stack, resolved>>

\* ------------------------------------------------------------ specification
Next ==
    \/ mon_backtrace
    \/ BacktraceStep
    \/ mon_showmapping
    \/ ShowStep
    \/ mon_setperm
    \/ mon_dumpmemory_p
    \/ PhysStep
    \/ mon_dumpmemory_v
    \/ VirtWhile
    \/ VirtFor

Spec == Init /\ [][Next]_vars
\* a command that was dispatched keeps running on the only thread of control;
\* nothing obliges the user to type a further command
FairSpec ==
    /\ Spec
    /\ WF_vars(BacktraceStep)
    /\ WF_vars(ShowStep)
    /\ WF_vars(PhysStep)
    /\ WF_vars(VirtWhile)
    /\ WF_vars(VirtFor)

\* ------------------------------------------------------------- properties
\* the typed start aligned down to a unit, and the typed count in bytes
AlignedStart == W(cmd.a1.pg, cmd.a1.off - (cmd.a1.off % 4))
\* the requested range ends at or below 2^32 - 4: its end does not wrap
NoWrap ==
    /\ cmd.units < 1048576
    /\ AlignedStart.pg * 1024 + (AlignedStart.off \div 4) + cmd.units < NPGNUM * 1024
\* the i-th unit of the requested range
UnitAt(i) == Add32(AlignedStart, WordOf(4 * (i - 1)))
VirtRunning == cmd.name = "dumpmem v" /\ pc \in {"vwhile", "vfor"}
VirtDone == cmd.name = "dumpmem v" /\ pc = "prompt"
\* a lookup of va made now: is there a present mapping
Present(pgdir, tab, va) ==
    /\ HasBit(PdeIn(pgdir, (va.pg \div 1024) % 1024), 1)
    /\ HasBit(PteIn(tab, PteRef((va.pg \div 1024) % 1024, va.pg % 1024)), 1)
EntryOf(tab, va) == PteIn(tab, PteRef((va.pg \div 1024) % 1024, va.pg % 1024))

\* C1: a virtual-mode dump of a range that does not wrap prints exactly the
\* units align_down(s), align_down(s)+4, ..., e-4, in order, once each: what
\* it has printed when it returns is that sequence, and it does return.
C1_RunCoverage ==
    /\ [](VirtDone /\ NoWrap =>
            /\ Len(out) = cmd.units
            /\ \A i \in 1..Len(out) : out[i].va = UnitAt(i))
    /\ ((VirtRunning /\ NoWrap) ~> VirtDone)

\* C7: every iteration of the outer loop of dump_virtmem computes a run
\* boundary strictly above the current address.
C7_BoundaryAdvances ==
    [][(pc = "vwhile" /\ pc' = "vfor" /\ NoWrap) => Lt32(start_addr, next_addr')]_vars

\* C9: mon_showmapping prints one record for each page from ROUNDDOWN(start)
\* to ROUNDDOWN(end), in increasing order, each classified by a lookup of that
\* page, and nothing else; when it returns it has printed all of them.
C9_ShowCoverage ==
    cmd.name = "showmapping" =>
        /\ \A i \in 1..Len(out) :
            /\ cmd.a1.pg + (i - 1) <= cmd.a2.pg
            /\ out[i].va = W(cmd.a1.pg + (i - 1), 0)
            /\ out[i].mapped = Present(kern_pgdir, pgtab, out[i].va)
        /\ pc = "prompt" /\ cmd.a1.pg <= cmd.a2.pg =>
            Len(out) = cmd.a2.pg - cmd.a1.pg + 1

\* the records of a physical-mode dump (not its error message)
IsData(r) == "pa" \in DOMAIN r
DataRecs == SelectSeq(out, IsData)
\* the end of the requested physical range lies above installed memory
EndBeyondMemory ==
    \/ ~NoWrap
    \/ AlignedStart.pg * 1024 + (AlignedStart.off \div 4) + cmd.units > npages * 1024
StartBelowMemory == AlignedStart.pg < npages

C10_PhysReadsInMemory ==
    /\ [](cmd.name = "dumpmem p" =>
            /\ pc # "panic"
            /\ DataRecs # <<>> => NoWrap
            /\ \A i \in 1..Len(DataRecs) :
                LET pa == DataRecs[i].pa
                IN  /\ pa.off % 4 = 0
                    /\ pa = UnitAt(i)
                    /\ i <= cmd.units
                    /\ pa.pg < npages
                    /\ pa.pg < 65536)
    /\ ((pc = "pfor") ~> (pc = "prompt"))
C10_Witness ==
    /\ cmd.name = "dumpmem p"
    /\ pc = "prompt"
    /\ npages > 65536
    /\ Len(DataRecs) = 2
    /\ cmd.units = 3
    /\ DataRecs[2].pa = W(65535, 4092)

\* C5: mon_backtrace prints one frame per non-zero frame base of the chain,
\* from the starting frame outwards, hands each frame's return address to the
\* resolver once, and then stops; a zero starting frame base prints nothing.
C5_BacktraceFrames ==
    /\ [](cmd.name = "backtrace" =>
            /\ Len(out) <= Len(cmd.frames)
            /\ Len(resolved) = Len(out)
            /\ \A i \in 1..Len(out) :
                /\ out[i].ebp = cmd.frames[i]
                /\ out[i].eip = EipOf(cmd.frames[i])
                /\ out[i].args = ArgsOf(cmd.frames[i])
                /\ resolved[i] = EipOf(cmd.frames[i])
            /\ pc = "prompt" => Len(out) = Len(cmd.frames))
    /\ ((pc = "bt") ~> (pc = "prompt"))
C5_Witness ==
    /\ cmd.name = "backtrace"
    /\ pc = "prompt"
    /\ Len(cmd.frames) = MaxFrames
    /\ Len(out) = MaxFrames
    /\ resolved[2] = resolved[3]

\* a step of mon_setperm
SetpermStep == pc = "prompt" /\ pc' = "prompt" /\ cmd'.name = "setperm"

\* C2 as stated: after set_permissions(v, bits) on a present mapping a lookup
\* of v finds a present entry whose low 12 bits are bits & 0xfff and whose
\* physical base is unchanged.
C2_PermEqualsBits ==
    [][(SetpermStep /\ Present(kern_pgdir, pgtab, cmd'.a1)) =>
        /\ Present(kern_pgdir', pgtab', cmd'.a1)
        /\ EntryOf(pgtab', cmd'.a1).off = cmd'.a2.off
        /\ EntryOf(pgtab', cmd'.a1).pg = EntryOf(pgtab, cmd'.a1).pg]_vars

\* C2 as amended: after set_permissions(v, bits) on a present mapping a lookup
\* of v finds a present entry whose low 12 bits are (bits & 0xfff) | PTE_P and
\* whose physical base is unchanged.
C2_PermEqualsBitsWithPresent ==
    [][(SetpermStep /\ Present(kern_pgdir, pgtab, cmd'.a1)) =>
        /\ Present(kern_pgdir', pgtab', cmd'.a1)
        /\ EntryOf(pgtab', cmd'.a1).off =
                cmd'.a2.off + (IF cmd'.a2.off % 2 = 0 THEN 1 ELSE 0)
        /\ EntryOf(pgtab', cmd'.a1).pg = EntryOf(pgtab, cmd'.a1).pg]_vars
C2_Witness ==
    /\ cmd.name = "setperm"
    /\ pc = "prompt"
    /\ out = <<[msg |-> "Permission has been set", perm |-> W(0, 6), va |-> cmd.a1]>>
    /\ cmd.a2 = W(1, 6)
    /\ EntryOf(pgtab, cmd.a1) = W(5, 7)

\* C3: mon_setperm on an address whose directory entry is missing, or whose
\* page-table entry has the present bit clear, reports that there is no
\* mapping and leaves every directory entry and every page-table entry as it
\* was.
C3_AbsentUnchanged ==
    [][(SetpermStep /\ ~Present(kern_pgdir, pgtab, cmd'.a1)) =>
        /\ kern_pgdir' = kern_pgdir
        /\ pgtab' = pgtab
        /\ out' = <<[msg |-> "There's no mapping", perm |-> W(0, cmd'.a2.off),
                     va |-> cmd'.a1]>>]_vars
C3_Witness ==
    /\ cmd.name = "setperm"
    /\ pc = "prompt"
    /\ cmd.a1 = W(1, 564)
    /\ HasBit(PdeIn(kern_pgdir, 0), 1)
    /\ EntryOf(pgtab, cmd.a1) = W(5, 2)
    /\ out[1].msg = "There's no mapping"

LongDump ==
    /\ cmd.name = "dumpmem v"
    /\ cmd.a1 = W(0, 4092)
    /\ cmd.units = 1027
    /\ pc = "prompt"
LongExpected ==
    [i \in 1..1027 |->
        IF i = 1 THEN [va |-> W(0, 4092), pa |-> <<>>, content |-> <<>>]
        ELSE IF i <= 1025
        THEN [va |-> W(1, 4 * (i - 2)), pa |-> <<W(5, 4 * (i - 2))>>,
              content |-> <<"word", W(1, 4 * (i - 2))>>]
        ELSE [va |-> W(2, 4 * (i - 1026)), pa |-> <<>>, content |-> <<>>]]

\* C6: every record dump_virtmem prints for an address a is a mapped record
\* exactly when a lookup of a finds a present entry, and then carries
\* physical_base(entry) | (a mod 4096) and the content at a; otherwise it
\* carries neither. The dump of 0x0FFC..0x2008 with 0x1000 mapped to 0x5000
\* prints one unmapped record, 1024 mapped ones for 0x5000..0x5FFC, and two
\* unmapped ones.
C6_RecordMatchesLookup ==
    /\ (cmd.name = "dumpmem v" /\ out # <<>>) =>
        LET r == out[Len(out)]
        IN  IF Present(kern_pgdir, pgtab, r.va)
            THEN /\ r.pa = <<W(EntryOf(pgtab, r.va).pg, r.va.off)>>
                 /\ r.content = <<"word", r.va>>
            ELSE r.pa = <<>> /\ r.content = <<>>
    /\ LongDump => out = LongExpected
C6_Witness == LongDump /\ Len(out) = 1027 /\ out[1025].pa = <<W(5, 4092)>>

====
